---- MODULE Spec2Model ----
(***************************************************************************)
(* Model of the task manager in src/main.py: the TaskManager class, its    *)
(* in-memory task list, the tasks.json document it loads at start-up and   *)
(* overwrites after every mutation, and the operations the menu loop calls.*)
(***************************************************************************)
EXTENDS Integers, Sequences, FiniteSets, TLC

\* ------------------------------------------------------------------ bounds
\* Largest number of tasks the store is allowed to hold in the model.
MaxTasks == 2
\* Largest number of failing reads and writes of tasks.json in a behaviour.
MaxFailures == 1

\* Descriptions the user can type (non-empty, already stripped by main()).
Descriptions == {"a", "B"}
\* Keywords the user can search for.
Keywords == {"a", "b"}
\* Values of datetime.now().strftime("%Y-%m-%d %H:%M:%S") at an add. The
\* program never branches on created_at nor rewrites it, so one value
\* stands for all.
Timestamps == {"2024-01-01 10:00:00"}
\* Task ids the user can type at an "Enter task ID" prompt.
ArgIds == 1..(MaxTasks + 1)
\* What one call of save_tasks can do: succeed, fail in open() (file left
\* as it was), or fail while writing (file truncated / partially written).
SaveResults == {"ok", "open_failed", "write_failed"}

VARIABLES
    tasks,      \* self.tasks: the in-memory list of task dicts
    file,       \* the tasks.json document on disk
    last,       \* the call the menu loop made last, with what it reported
    prevTasks,  \* self.tasks as it was when the last call started
    failures,   \* number of failed reads and writes of the file so far
    noRemoval,  \* history: no task removed since the store was last empty
    healthy     \* history: this run of the program loaded an absent or a
                \* well-formed file and every save_tasks call of it succeeded

vars == <<tasks, file, last, prevTasks, failures, noRemoval, healthy>>

\* ------------------------------------------------------- pure helpers
AbsentFile == [kind |-> "absent", content |-> <<>>]

\* Mutant of json_dump_task: the flag written as str(bool), not as JSON.
json_dump_task_pybool(t) ==
    [id |-> t.id, description |-> t.description,
     completed |-> IF t.completed THEN "True" ELSE "False",
     created_at |-> t.created_at]

\* One JSON object of the document and the dict it comes from.
json_dump_task(t) ==
    [id |-> t.id, description |-> t.description,
     completed |-> IF t.completed THEN "true" ELSE "false",
     created_at |-> t.created_at]

json_load_task(o) ==
    [id |-> o.id, description |-> o.description,
     completed |-> (o.completed = "true"),
     created_at |-> o.created_at]

\* json.dump(self.tasks, f, indent=2): the array of objects, in list order.
json_dump(ts) == [i \in 1..Len(ts) |-> json_dump_task(ts[i])]

\* json.load(f) of a well-formed document.
json_load(content) == [i \in 1..Len(content) |-> json_load_task(content[i])]

\* load_tasks: [] when the file is absent, unreadable or malformed.
load_tasks(f, readable) ==
    IF f.kind = "absent" THEN <<>>
    ELSE IF (~readable) \/ f.kind = "malformed" THEN <<>>
    ELSE json_load(f.content)

\* Mutant of save_tasks: the file opened with 'a', so a successful write
\* lands after the old document instead of replacing it.
save_tasks_append(ts, f, res) ==
    CASE res = "ok" -> IF f.kind = "doc"
                       THEN [kind |-> "malformed", content |-> <<>>]
                       ELSE [kind |-> "doc", content |-> json_dump(ts)]
      [] res = "open_failed" -> f
      [] res = "write_failed" -> [kind |-> "malformed", content |-> <<>>]

\* save_tasks: the document after the call, given how the write went.
save_tasks(ts, f, res) ==
    CASE res = "ok" -> [kind |-> "doc", content |-> json_dump(ts)]
      [] res = "open_failed" -> f
      [] res = "write_failed" -> [kind |-> "malformed", content |-> <<>>]

\* Mutant of NextId: the + 1 forgotten.
NextId_len(ts) == Len(ts)

\* "id": len(self.tasks) + 1
NextId(ts) == Len(ts) + 1

\* The dict add_task builds.
NewTask(ts, description, now) ==
    [id |-> NextId(ts), description |-> description,
     completed |-> FALSE, created_at |-> now]

\* Mutant of FindFirst: the loop variable used after a loop that fell through.
FindFirst_fallthrough(ts, task_id) ==
    IF \E i \in 1..Len(ts) : ts[i].id = task_id
    THEN CHOOSE i \in 1..Len(ts) :
            /\ ts[i].id = task_id
            /\ \A j \in 1..(i - 1) : ts[j].id # task_id
    ELSE Len(ts)

\* The for-loops of complete/delete/edit: index of the first task whose id
\* equals task_id, 0 when the loop falls through.
FindFirst(ts, task_id) ==
    IF \E i \in 1..Len(ts) : ts[i].id = task_id
    THEN CHOOSE i \in 1..Len(ts) :
            /\ ts[i].id = task_id
            /\ \A j \in 1..(i - 1) : ts[j].id # task_id
    ELSE 0

\* Mutant of IsCompleted: the already-completed test dropped.
IsCompleted_never(t) == FALSE

\* if task["completed"]
IsCompleted(t) == t.completed

\* task["completed"] = True on the i-th task
SetCompleted(ts, i) == [ts EXCEPT ![i].completed = TRUE]

\* Mutant of PopAt: self.tasks.pop() without the index.
PopAt_last(ts, i) == SubSeq(ts, 1, Len(ts) - 1)

\* self.tasks.pop(i) (i counted from 1 here)
PopAt(ts, i) == SubSeq(ts, 1, i - 1) \o SubSeq(ts, i + 1, Len(ts))

\* Mutant of SetDescription: the task rebuilt as add_task builds it.
SetDescription_rebuild(ts, i, d) ==
    [ts EXCEPT ![i].description = d, ![i].completed = FALSE]

\* task["description"] = new_description on the i-th task
SetDescription(ts, i, d) == [ts EXCEPT ![i].description = d]

\* Mutant of FilterPending: the "not" of the filter forgotten.
FilterPending_inverted(ts) == SelectSeq(ts, LAMBDA t : t.completed)

\* [t for t in self.tasks if not t["completed"]]
FilterPending(ts) == SelectSeq(ts, LAMBDA t : ~t.completed)

\* sum(1 for t in self.tasks if t["completed"])
CompletedCount(ts) == Cardinality({i \in 1..Len(ts) : ts[i].completed})

\* str.lower() on the one-letter strings of the model
Lower(s) == CASE s = "A" -> "a" [] s = "B" -> "b" [] OTHER -> s

\* keyword_lower in task["description"].lower(), for one-letter strings
Matches(keyword, description) == Lower(keyword) = Lower(description)

\* matching_tasks of search_tasks
MatchingTasks(ts, keyword) ==
    SelectSeq(ts, LAMBDA t : Matches(keyword, t.description))

\* ------------------------------------------------------- call records
\* op, id, desc: the operation and its arguments; outcome, count: what it
\* reported; saved: how its save_tasks call went ("none": not called);
\* again: the call is a complete or a delete and the call before it was the
\* same operation with the same id.
Call(op, id, desc, outcome, saved, count) ==
    [op |-> op, id |-> id, desc |-> desc, outcome |-> outcome,
     saved |-> saved, count |-> count,
     again |-> (op \in {"complete", "delete"} /\ last.op = op /\ last.id = id)]

\* The record of __init__, before any call of the menu loop.
InitCall ==
    [op |-> "init", id |-> 0, desc |-> "", outcome |-> "loaded",
     saved |-> "none", count |-> 0, again |-> FALSE]

\* A save may fail only while the failure budget lasts.
MayResult(res) == res = "ok" \/ failures < MaxFailures

Removed(ts, ts2) == Len(ts2) < Len(ts)

\* Common bookkeeping of one store call: the new list, whether save_tasks
\* was called (res # "none"), and the call record.
Step(newTasks, res, call) ==
    /\ tasks' = newTasks
    /\ prevTasks' = tasks
    /\ file' = IF res = "none" THEN file ELSE save_tasks(newTasks, file, res)
    /\ failures' = IF res \in {"open_failed", "write_failed"}
                   THEN failures + 1 ELSE failures
    /\ noRemoval' = IF newTasks = <<>> THEN TRUE
                    ELSE IF Removed(tasks, newTasks) THEN FALSE
                    ELSE noRemoval
    /\ healthy' = (healthy /\ res \in {"none", "ok"})
    /\ last' = call

\* ------------------------------------------------------------ actions
Init ==
    /\ tasks = <<>>
    /\ file = AbsentFile
    /\ last = InitCall
    /\ prevTasks = <<>>
    /\ failures = 0
    /\ noRemoval = TRUE
    /\ healthy = TRUE

\* A new run of the program: main() constructs TaskManager().
Restart ==
    \E readable \in BOOLEAN :
        /\ readable \/ (file.kind = "doc" /\ failures < MaxFailures)
        /\ tasks' = load_tasks(file, readable)
        /\ prevTasks' = load_tasks(file, readable)
        /\ last' = InitCall
        /\ noRemoval' = (load_tasks(file, readable) = <<>>)
        /\ failures' = IF readable THEN failures ELSE failures + 1
        /\ healthy' = (file.kind = "absent" \/ (file.kind = "doc" /\ readable))
        /\ UNCHANGED file

add_task ==
    \E description \in Descriptions, now \in Timestamps, res \in SaveResults :
        /\ Len(tasks) < MaxTasks
        /\ MayResult(res)
        /\ Step(Append(tasks, NewTask(tasks, description, now)), res,
                Call("add", 0, description, "added", res, 0))

list_tasks ==
    Step(tasks, "none",
         Call("list", 0, "", IF tasks = <<>> THEN "empty" ELSE "listed",
              "none", CompletedCount(tasks)))

complete_task ==
    \E task_id \in ArgIds, res \in SaveResults :
        LET i == FindFirst(tasks, task_id) IN
        IF i = 0
        THEN /\ res = "ok"
             /\ Step(tasks, "none",
                     Call("complete", task_id, "", "not_found", "none", 0))
        ELSE IF IsCompleted(tasks[i])
        THEN /\ res = "ok"
             /\ Step(tasks, "none",
                     Call("complete", task_id, "", "already_completed",
                          "none", 0))
        ELSE /\ MayResult(res)
             /\ Step(SetCompleted(tasks, i), res,
                     Call("complete", task_id, "", "completed", res, 0))

delete_task ==
    \E task_id \in ArgIds, res \in SaveResults :
        LET i == FindFirst(tasks, task_id) IN
        IF i = 0
        THEN /\ res = "ok"
             /\ Step(tasks, "none",
                     Call("delete", task_id, "", "not_found", "none", 0))
        ELSE /\ MayResult(res)
             /\ Step(PopAt(tasks, i), res,
                     Call("delete", task_id, tasks[i].description, "deleted",
                          res, 0))

clear_completed ==
    \E res \in SaveResults :
        LET kept == FilterPending(tasks)
            removed == Len(tasks) - Len(kept) IN
        IF removed > 0
        THEN /\ MayResult(res)
             /\ Step(kept, res, Call("clear", 0, "", "removed", res, removed))
        ELSE /\ res = "ok"
             /\ Step(kept, "none",
                     Call("clear", 0, "", "nothing", "none", removed))

edit_task ==
    \E task_id \in ArgIds, new_description \in Descriptions,
       res \in SaveResults :
        LET i == FindFirst(tasks, task_id) IN
        IF i = 0
        THEN /\ res = "ok"
             /\ Step(tasks, "none",
                     Call("edit", task_id, "", "not_found", "none", 0))
        ELSE /\ MayResult(res)
             /\ Step(SetDescription(tasks, i, new_description), res,
                     Call("edit", task_id, new_description, "updated",
                          res, 0))

show_statistics ==
    Step(tasks, "none",
         Call("statistics", 0, "", IF tasks = <<>> THEN "empty" ELSE "shown",
              "none", CompletedCount(tasks)))

search_tasks ==
    \E keyword \in Keywords :
        Step(tasks, "none",
             Call("search", 0, "",
                  IF MatchingTasks(tasks, keyword) = <<>>
                  THEN "no_match" ELSE "found",
                  "none", Len(MatchingTasks(tasks, keyword))))

Next ==
    \/ Restart
    \/ add_task
    \/ list_tasks
    \/ complete_task
    \/ delete_task
    \/ clear_completed
    \/ edit_task
    \/ show_statistics
    \/ search_tasks

Spec == Init /\ [][Next]_vars

\* ------------------------------------------------------------- claims
\* Helpers of the statements below.
HasId(ts, task_id) == \E i \in 1..Len(ts) : ts[i].id = task_id

RECURSIVE PendingOf(_)
PendingOf(ts) ==
    IF ts = <<>> THEN <<>>
    ELSE IF Head(ts).completed THEN PendingOf(Tail(ts))
    ELSE <<Head(ts)>> \o PendingOf(Tail(ts))

FailedSave == last.saved \in {"open_failed", "write_failed"}

\* C1: no two tasks currently in the store have the same id.
UniqueIds ==
    \A i, j \in 1..Len(tasks) : i # j => tasks[i].id # tasks[j].id

\* C2: from an empty store and with no removal in between, the k-th add
\* appends a task with id = k and completed = false, so the stored ids are
\* exactly 1, 2, ..., n in this order.
AddNumbersFromOne ==
    noRemoval =>
        /\ \A i \in 1..Len(tasks) : tasks[i].id = i
        /\ last.op = "add" =>
            /\ Len(tasks) = Len(prevTasks) + 1
            /\ SubSeq(tasks, 1, Len(prevTasks)) = prevTasks
            /\ tasks[Len(tasks)].id = Len(tasks)
            /\ tasks[Len(tasks)].completed = FALSE

AddNumbersFromOneWitness ==
    /\ noRemoval
    /\ last.op = "add"
    /\ Len(tasks) >= 2
    /\ tasks[1].completed

\* C3: delete(id) directly followed by delete(id) reports "not found" on the
\* second call and the second call leaves the task sequence unchanged.
SecondDeleteNotFound ==
    (last.op = "delete" /\ last.again) =>
        /\ last.outcome = "not_found"
        /\ tasks = prevTasks

\* C4: complete(id) called twice in succession on an id in the store: the
\* second call reports "already completed", leaves the sequence as the first
\* call left it and does not call save_tasks.
CompleteIdempotent ==
    (last.op = "complete" /\ last.again /\ HasId(prevTasks, last.id)) =>
        /\ last.outcome = "already_completed"
        /\ tasks = prevTasks
        /\ last.saved = "none"

CompleteIdempotentWitness ==
    /\ last.op = "complete"
    /\ last.again
    /\ HasId(prevTasks, last.id)
    /\ Len(tasks) >= 2

NotFoundNoChange ==
    (last.op \in {"complete", "delete", "edit"}
        /\ ~HasId(prevTasks, last.id)) =>
        /\ last.outcome = "not_found"
        /\ tasks = prevTasks
        /\ last.saved = "none"

NotFoundNoChangeWitness ==
    /\ last.op = "edit"
    /\ ~HasId(prevTasks, last.id)
    /\ Len(tasks) >= 2

EditChangesOnlyDescription ==
    (last.op = "edit" /\ HasId(prevTasks, last.id)) =>
        /\ last.outcome = "updated"
        /\ Len(tasks) = Len(prevTasks)
        /\ \E k \in 1..Len(prevTasks) :
            /\ prevTasks[k].id = last.id
            /\ tasks[k].description = last.desc
            /\ tasks[k].id = prevTasks[k].id
            /\ tasks[k].completed = prevTasks[k].completed
            /\ tasks[k].created_at = prevTasks[k].created_at
            /\ \A j \in 1..Len(tasks) : j # k => tasks[j] = prevTasks[j]

EditChangesOnlyDescriptionWitness ==
    /\ last.op = "edit"
    /\ last.outcome = "updated"
    /\ Len(tasks) >= 2
    /\ tasks # prevTasks
    /\ \E k \in 1..Len(tasks) : tasks[k].completed /\ tasks[k] # prevTasks[k]

\* C9: in a run of the program that loaded an absent or a well-formed file
\* and in which every save succeeded, the document holds the in-memory
\* sequence after every call; list, statistics and search neither change the
\* sequence nor call save_tasks.
DocumentMatchesStore ==
    /\ healthy =>
        /\ file.kind # "malformed"
        /\ file.kind = "absent" => tasks = <<>>
        /\ file.kind = "doc" => json_load(file.content) = tasks
    /\ last.op \in {"list", "statistics", "search"} =>
        /\ tasks = prevTasks
        /\ last.saved = "none"

DocumentMatchesStoreWitness ==
    /\ healthy
    /\ failures > 0
    /\ last.op = "search"
    /\ file.kind = "doc"
    /\ Len(tasks) >= 2
    /\ tasks[1].completed

\* C10: a mutating call whose save fails still reports its success and keeps
\* its in-memory mutation (store and document may then differ); a call whose
\* save succeeds leaves the document equal to the in-memory sequence.
SaveFailureKeepsMutation ==
    /\ FailedSave =>
        /\ last.op \in {"add", "complete", "delete", "edit", "clear"}
        /\ last.op = "add" =>
            /\ last.outcome = "added"
            /\ Len(tasks) = Len(prevTasks) + 1
            /\ tasks[Len(tasks)].description = last.desc
        /\ last.op = "complete" =>
            /\ last.outcome = "completed"
            /\ \E k \in 1..Len(tasks) :
                /\ tasks[k].id = last.id
                /\ ~prevTasks[k].completed
                /\ tasks[k].completed
        /\ last.op = "delete" =>
            /\ last.outcome = "deleted"
            /\ Len(tasks) = Len(prevTasks) - 1
        /\ last.op = "edit" =>
            /\ last.outcome = "updated"
            /\ \E k \in 1..Len(tasks) :
                /\ tasks[k].id = last.id
                /\ tasks[k].description = last.desc
        /\ last.op = "clear" =>
            /\ last.outcome = "removed"
            /\ Len(tasks) < Len(prevTasks)
            /\ \A k \in 1..Len(tasks) : ~tasks[k].completed
    /\ last.saved = "ok" =>
        /\ file.kind = "doc"
        /\ json_load(file.content) = tasks

SaveFailureKeepsMutationWitness ==
    /\ FailedSave
    /\ last.op = "complete"
    /\ file.kind = "doc"
    /\ json_load(file.content) # tasks
    /\ json_load(file.content) = prevTasks

====
